---- MODULE Spec2Model ----
(***************************************************************************)
(* Packed truth tables of pyeda (src/pyeda/table.py): the constructor, the *)
(* complement, sum and product operators, restrict, satisfy_count and      *)
(* truthtable2expr, over a bit-exact model of the packed byte buffer.      *)
(***************************************************************************)
EXTENDS Integers, Sequences, FiniteSets, TLC

\* ------------------------------------------------------------------ bounds
\* Variables are the integers 1..NumVars; their order is the integer order.
NumVars == 3

Vars == 1..NumVars

\* ------------------------------------------------- Python integer operators
RECURSIVE BitAnd(_, _)
BitAnd(a, b) ==
    IF a = 0 \/ b = 0 THEN 0
    ELSE (a % 2) * (b % 2) + 2 * BitAnd(a \div 2, b \div 2)

RECURSIVE BitOr(_, _)
BitOr(a, b) ==
    IF a = 0 THEN b
    ELSE IF b = 0 THEN a
    ELSE (IF a % 2 = 1 \/ b % 2 = 1 THEN 1 ELSE 0) + 2 * BitOr(a \div 2, b \div 2)

Shl(a, n) == a * 2^n

Shr(a, n) == a \div 2^n

\* ------------------------------------------------------- pyeda.common
PC_VOID == 0
PC_ONE == 1
PC_ZERO == 2
PC_DC == 3

bit_on(num, bit) == BitAnd(Shr(num, bit), 1)

\* A Python value handed to a coercion is an int or a one-character string.
PyInt(n) == [int |-> n]
PyStr(s) == [str |-> s]
IsStr(x) == "str" \in DOMAIN x

boolify(arg) ==
    IF IsStr(arg)
    THEN CASE arg.str = "0" -> 0
           [] arg.str = "1" -> 1
    ELSE CASE arg.int = 0 -> 0
           [] arg.int = 1 -> 1

pcify(arg) ==
    IF IsStr(arg)
    THEN CASE arg.str = "0" -> PC_ZERO
           [] arg.str = "1" -> PC_ONE
           [] arg.str = "-" -> PC_DC
           [] arg.str = "?" -> PC_VOID
    ELSE CASE arg.int = 0 -> PC_ZERO
           [] arg.int = 1 -> PC_ONE

\* ------------------------------------------------------- table.py tables
PC2STR(output) ==
    CASE output = PC_VOID -> "?"
      [] output = PC_ZERO -> "0"
      [] output = PC_ONE -> "1"
      [] output = PC_DC -> "-"

COUNT_ONES(n) ==
    LET f[i \in 0..8] == IF i = 0 THEN 0 ELSE f[i - 1] + bit_on(n, i - 1)
    IN f[8]

PC_COUNT_ONES(n) ==
    LET f[j \in 0..4] ==
            IF j = 0 THEN 0
            ELSE f[j - 1] + (IF BitAnd(Shr(n, 2 * (j - 1)), 3) = PC_ONE THEN 1 ELSE 0)
    IN f[4]

\* ------------------------------------------------------- values
\* What an expression of the program evaluates to: a TruthTable object, a
\* Python int, or a raised exception.
Table(inputs, data, pc) ==
    [kind |-> "table", inputs |-> inputs, data |-> data, pc |-> pc, val |-> 0]
Scalar(n) ==
    [kind |-> "int", inputs |-> <<>>, data |-> <<>>, pc |-> FALSE, val |-> n]
Raise(exc) ==
    [kind |-> exc, inputs |-> <<>>, data |-> <<>>, pc |-> FALSE, val |-> 0]

IsTable(x) == x.kind = "table"
IsInt(x) == x.kind = "int"
IsError(x) == ~IsTable(x) /\ ~IsInt(x)

\* ------------------------------------------------------- TruthTable
width(pc) == IF pc THEN 2 ELSE 1

mask(pc) == Shl(1, width(pc)) - 1

degree(tt) == Len(tt.inputs)

cardinality(tt) == Shl(1, degree(tt))

support(tt) == {tt.inputs[i] : i \in 1..Len(tt.inputs)}

\* Mutant of pack: the position advances by one bit whatever the width.
RECURSIVE pack_onebit(_, _, _, _)
pack_onebit(outputs, pc, data, pos) ==
    IF outputs = <<>> THEN data
    ELSE LET output == IF pc THEN pcify(Head(outputs)) ELSE boolify(Head(outputs))
             d1 == IF pos = 0 THEN Append(data, 0) ELSE data
             d2 == [d1 EXCEPT ![Len(d1)] = @ + Shl(output, pos)]
         IN pack_onebit(Tail(outputs), pc, d2, BitAnd(pos + 1, 7))

\* The loop of __new__ over the supplied outputs: the buffer after them.
RECURSIVE pack(_, _, _, _)
pack(outputs, pc, data, pos) ==
    IF outputs = <<>> THEN data
    ELSE LET output == IF pc THEN pcify(Head(outputs)) ELSE boolify(Head(outputs))
             d1 == IF pos = 0 THEN Append(data, 0) ELSE data
             d2 == [d1 EXCEPT ![Len(d1)] = @ + Shl(output, pos)]
         IN pack(Tail(outputs), pc, d2, BitAnd(pos + width(pc), 7))

\* Mutant of TruthTable_new: only too few outputs are refused.
TruthTable_new_atleast(inputs, outputs, pc) ==
    IF Len(outputs) < Shl(1, Len(inputs)) THEN Raise("AssertionError")
    ELSE IF Len(inputs) = 0
    THEN LET last == outputs[Len(outputs)]
         IN Scalar(IF pc THEN pcify(last) ELSE boolify(last))
    ELSE Table(inputs, pack(outputs, pc, <<>>, 0), pc)

TruthTable_new(inputs, outputs, pc) ==
    IF Len(outputs) # Shl(1, Len(inputs)) THEN Raise("AssertionError")
    ELSE IF Len(inputs) = 0
    THEN LET last == outputs[Len(outputs)]
         IN Scalar(IF pc THEN pcify(last) ELSE boolify(last))
    ELSE Table(inputs, pack(outputs, pc, <<>>, 0), pc)

\* q, r = divmod(n * width, 8); (data[q] >> r) & mask
decode(tt, n) ==
    LET q == (n * width(tt.pc)) \div 8
        r == (n * width(tt.pc)) % 8
        byte == tt.data[q + 1]
    IN BitAnd(Shr(byte, r), mask(tt.pc))

\* ------------------------------------------------------- pyeda.boolfunc
\* num2point: the point of index num over the variables vs.
IndexIn(vs, v) == CHOOSE i \in 1..Len(vs) : vs[i] = v

num2point(num, vs) ==
    [v \in {vs[i] : i \in 1..Len(vs)} |-> bit_on(num, IndexIn(vs, v) - 1)]

iter_points(vs) == [i \in 1..Shl(1, Len(vs)) |-> num2point(i - 1, vs)]

\* sorted(): the variables of a set in ascending order.
RECURSIVE sorted(_)
sorted(S) ==
    IF S = {} THEN <<>>
    ELSE LET m == CHOOSE x \in S : \A y \in S : x <= y
         IN <<m>> \o sorted(S \ {m})

\* ------------------------------------------------------- restrict
\* Mutant of iter_restrict: the bit of a variable is read one place too high.
iter_restrict_offbyone(self, point) ==
    LET keep(n) ==
            LET vs == {v \in support(self) : v \in DOMAIN point}
                _point == [v \in vs |-> bit_on(n, IndexIn(self.inputs, v))]
            IN _point = point
        yield(n) ==
            IF self.pc THEN PyStr(PC2STR(decode(self, n)))
            ELSE PyInt(decode(self, n))
        f[n \in 0..cardinality(self)] ==
            IF n = 0 THEN <<>>
            ELSE IF keep(n - 1) THEN Append(f[n - 1], yield(n - 1))
            ELSE f[n - 1]
    IN f[cardinality(self)]

\* The outputs _iter_restrict yields, in order, for a non-empty point over
\* variables of the support.
iter_restrict(self, point) ==
    LET keep(n) ==
            LET vs == {v \in support(self) : v \in DOMAIN point}
                _point == [v \in vs |-> bit_on(n, IndexIn(self.inputs, v) - 1)]
            IN _point = point
        yield(n) ==
            IF self.pc THEN PyStr(PC2STR(decode(self, n)))
            ELSE PyInt(decode(self, n))
        f[n \in 0..cardinality(self)] ==
            IF n = 0 THEN <<>>
            ELSE IF keep(n - 1) THEN Append(f[n - 1], yield(n - 1))
            ELSE f[n - 1]
    IN f[cardinality(self)]

\* Mutant of restrict: _iter_restrict is handed the whole point, not its part
\* on the support.
restrict_wholepoint(self, point) ==
    LET intersect == [v \in DOMAIN point \cap support(self) |-> point[v]]
    IN IF DOMAIN intersect # {}
       THEN LET inputs == SelectSeq(self.inputs, LAMBDA v : v \notin DOMAIN point)
                outputs == iter_restrict(self, point)
            IN TruthTable_new(inputs, outputs, self.pc)
       ELSE self

restrict(self, point) ==
    LET intersect == [v \in DOMAIN point \cap support(self) |-> point[v]]
    IN IF DOMAIN intersect # {}
       THEN LET inputs == SelectSeq(self.inputs, LAMBDA v : v \notin DOMAIN point)
                outputs == iter_restrict(self, intersect)
            IN TruthTable_new(inputs, outputs, self.pc)
       ELSE self

\* ------------------------------------------------------- operators
\* Mutant of neg_byte_pc: the may_be_zero plane is not shifted down.
neg_byte_pc_noshift(byte) == BitOr(Shl(BitAnd(byte, 85), 1), BitAnd(byte, 170)) % 256

neg_byte_pc(byte) == BitOr(Shl(BitAnd(byte, 85), 1), Shr(BitAnd(byte, 170), 1))

neg_byte(byte) == 255 - byte

TT_neg(self) ==
    Table(self.inputs,
          [i \in 1..Len(self.data) |->
              IF self.pc THEN neg_byte_pc(self.data[i]) ELSE neg_byte(self.data[i])],
          self.pc)

\* Mutant of add_output: both planes are ORed.
add_output_orboth(self_out, other_out) ==
    BitOr(BitAnd(BitOr(self_out, other_out), 2), BitAnd(BitOr(self_out, other_out), 1))

add_output(self_out, other_out) ==
    BitOr(BitAnd(BitAnd(self_out, other_out), 2), BitAnd(BitOr(self_out, other_out), 1))

\* Mutant of mul_output: both planes are ANDed.
mul_output_andboth(self_out, other_out) ==
    BitOr(BitAnd(BitAnd(self_out, other_out), 2), BitAnd(BitAnd(self_out, other_out), 1))

mul_output(self_out, other_out) ==
    BitOr(BitAnd(BitOr(self_out, other_out), 2), BitAnd(BitAnd(self_out, other_out), 1))

\* The generator _outputs of __add__.
add_outputs(self, other, inputs, pc) ==
    LET points == iter_points(inputs)
        out(point) ==
            LET self_out == restrict(self, point).val
                other_out == restrict(other, point).val
            IN IF pc
               THEN LET s == IF ~self.pc THEN pcify(PyInt(self_out)) ELSE self_out
                        o == IF ~other.pc THEN pcify(PyInt(other_out)) ELSE other_out
                    IN PyStr(PC2STR(add_output(s, o)))
               ELSE PyInt(BitOr(self_out, other_out))
    IN [i \in 1..Len(points) |-> out(points[i])]

TT_add(self, other) ==
    IF IsInt(other) /\ other.val = 0 THEN self
    ELSE IF IsInt(other) /\ other.val = 1 THEN Scalar(1)
    ELSE IF ~IsTable(other) THEN Raise("AttributeError")
    ELSE LET inputs == sorted(support(self) \cup support(other))
             pc == self.pc \/ other.pc
         IN TruthTable_new(inputs, add_outputs(self, other, inputs, pc), pc)

\* The generator _outputs of __mul__.
mul_outputs(self, other, inputs, pc) ==
    LET points == iter_points(inputs)
        out(point) ==
            LET self_out == restrict(self, point).val
                other_out == restrict(other, point).val
            IN IF pc
               THEN LET s == IF ~self.pc THEN pcify(PyInt(self_out)) ELSE self_out
                        o == IF ~other.pc THEN pcify(PyInt(other_out)) ELSE other_out
                    IN PyStr(PC2STR(mul_output(s, o)))
               ELSE PyInt(BitAnd(self_out, other_out))
    IN [i \in 1..Len(points) |-> out(points[i])]

TT_mul(self, other) ==
    IF IsInt(other) /\ other.val = 0 THEN Scalar(0)
    ELSE IF IsInt(other) /\ other.val = 1 THEN self
    ELSE IF ~IsTable(other) THEN Raise("AttributeError")
    ELSE LET inputs == sorted(support(self) \cup support(other))
             pc == self.pc \/ other.pc
         IN TruthTable_new(inputs, mul_outputs(self, other, inputs, pc), pc)

\* ------------------------------------------------------- queries
\* The indices whose points iter_ones yields, in order.
iter_ones(self) ==
    SelectSeq([i \in 1..cardinality(self) |-> i - 1],
              LAMBDA n : (self.pc /\ BitAnd(decode(self, n), 1) # 0)
                         \/ (~self.pc /\ decode(self, n) = 1))

iter_zeros(self) ==
    SelectSeq([i \in 1..cardinality(self) |-> i - 1],
              LAMBDA n : (self.pc /\ BitAnd(decode(self, n), 2) # 0)
                         \/ (~self.pc /\ decode(self, n) = 0))

satisfy_all(self) == iter_ones(self)

RECURSIVE SumSeq(_)
SumSeq(s) == IF s = <<>> THEN 0 ELSE Head(s) + SumSeq(Tail(s))

satisfy_count(self) ==
    IF self.pc
    THEN SumSeq([i \in 1..Len(self.data) |-> PC_COUNT_ONES(self.data[i])])
    ELSE SumSeq([i \in 1..Len(self.data) |-> COUNT_ONES(self.data[i])])

\* ------------------------------------------------------- truthtable2expr
\* boolfunc.index2term: one literal per input variable. In a minterm
\* (conj = FALSE) the literal is negated when the point sets the variable to 0,
\* in a maxterm (conj = TRUE) when it sets it to 1.
index2term(n, vs, conj) ==
    [i \in 1..Len(vs) |->
        [var |-> vs[i],
         neg |-> IF conj THEN bit_on(n, i - 1) = 1 ELSE bit_on(n, i - 1) = 0]]

\* Mutant of truthtable2expr: a plane-coded output counts when its plane bit
\* is set, as in iter_ones and iter_zeros.
truthtable2expr_planebit(tt, conj) ==
    LET take(n) ==
            LET output == decode(tt, n)
            IN IF conj
               THEN (~tt.pc /\ output = 0) \/ (tt.pc /\ BitAnd(output, 2) # 0)
               ELSE (~tt.pc /\ output = 1) \/ (tt.pc /\ BitAnd(output, 1) # 0)
        terms[n \in 0..cardinality(tt)] ==
            IF n = 0 THEN <<>>
            ELSE IF take(n - 1)
                 THEN Append(terms[n - 1], index2term(n - 1, tt.inputs, conj))
                 ELSE terms[n - 1]
    IN [outer |-> IF conj THEN "And" ELSE "Or",
        inner |-> IF conj THEN "Or" ELSE "And",
        terms |-> terms[cardinality(tt)]]

\* The expression outer(*[inner(*term) for term in terms]), kept as its
\* connectives and the list of terms.
truthtable2expr(tt, conj) ==
    LET take(n) ==
            LET output == decode(tt, n)
            IN IF conj
               THEN (~tt.pc /\ output = 0) \/ (tt.pc /\ output = PC_ZERO)
               ELSE (~tt.pc /\ output = 1) \/ (tt.pc /\ output = PC_ONE)
        terms[n \in 0..cardinality(tt)] ==
            IF n = 0 THEN <<>>
            ELSE IF take(n - 1)
                 THEN Append(terms[n - 1], index2term(n - 1, tt.inputs, conj))
                 ELSE terms[n - 1]
    IN [outer |-> IF conj THEN "And" ELSE "Or",
        inner |-> IF conj THEN "Or" ELSE "And",
        terms |-> terms[cardinality(tt)]]

\* ------------------------------------------------------- the program
\* A run constructs a table and applies operations to the latest result.
\*   op       the last operation
\*   self     its receiver, other / point its argument
\*   inputs, outputs, pc   the arguments of the last constructor call
\*   result   what the last operation returned (or raised)
\*   expr     what the last truthtable2expr call returned
VARIABLES op, self, other, point, inputs, outputs, pc, result, expr

vars == <<op, self, other, point, inputs, outputs, pc, result, expr>>

None == Scalar(0)
NoPoint == <<>>
NoExpr == [outer |-> "", inner |-> "", terms |-> <<>>]

\* Input tuples: the duplicate-free sequences of variables.
Tuples ==
    {t \in UNION {[1..k -> Vars] : k \in 0..NumVars} :
        \A i, j \in DOMAIN t : i # j => t[i] # t[j]}

IsAscending(vs) == \A i, j \in DOMAIN vs : i < j => vs[i] < vs[j]

IsDescending(vs) == \A i, j \in DOMAIN vs : i < j => vs[i] > vs[j]

\* The input tuples that ascend or descend.
Monotone == {t \in Tuples : IsAscending(t) \/ IsDescending(t)}

Tokens(p) == IF p THEN {PyStr("0"), PyStr("1"), PyStr("-"), PyStr("?")}
             ELSE {PyInt(0), PyInt(1)}

\* Output sequences of a given length: every alternation of two tokens (all
\* the tables of one variable), and a fixed cycle of tokens from every
\* starting place.
Cycle(p) == IF p THEN <<PyStr("0"), PyStr("-"), PyStr("1"), PyStr("?"), PyStr("1")>>
            ELSE <<PyInt(0), PyInt(0), PyInt(1), PyInt(1), PyInt(0)>>

Repeat(pat, len) == [i \in 1..len |-> pat[((i - 1) % Len(pat)) + 1]]

Rotate(cyc, r, len) == [i \in 1..len |-> cyc[((i - 1 + r) % Len(cyc)) + 1]]

Rotations(p, len) == {Rotate(Cycle(p), r, len) : r \in 0..(Len(Cycle(p)) - 1)}

Sequences(p, len) ==
    {Repeat(pat, len) : pat \in [1..2 -> Tokens(p)]} \cup Rotations(p, len)

\* Partial points: assignments of some of the variables.
Points == UNION {[S -> {0, 1}] : S \in SUBSET Vars}

\* Operands of the sum and the product: the tables whose outputs run through
\* the cycle, over the given input tuples.
CycleTables(tuples) ==
    {TruthTable_new(x[1], x[3], x[2][1]) :
        x \in {y \in tuples \X {<<TRUE>>, <<FALSE>>}
                   \X UNION {Rotations(q, 2^k) : q \in BOOLEAN, k \in 1..NumVars} :
                y[3] \in Rotations(y[2][1], 2^Len(y[1]))}}

\* The receiver's inputs ascend or descend; the argument is a table with
\* ascending inputs, or a constant.
Receivers == CycleTables(Monotone \ {<<>>})

Arguments == CycleTables({t \in Tuples : t # <<>> /\ IsAscending(t)})
                 \cup {Scalar(0), Scalar(1)}

Init ==
    /\ op = "init"
    /\ self = None
    /\ other = None
    /\ point = NoPoint
    /\ inputs = <<>>
    /\ outputs = <<>>
    /\ pc = FALSE
    /\ result = None
    /\ expr = NoExpr

\* TruthTable(inputs, outputs, pc), with as many outputs as the table has
\* points, one fewer, one more, or none.
New(tuples) ==
    \E t \in tuples, p \in BOOLEAN :
      \E len \in {0, Shl(1, Len(t)) - 1, Shl(1, Len(t)), Shl(1, Len(t)) + 1} :
        \E outs \in Sequences(p, len) :
          /\ op = "init"
          /\ op' = "new"
          /\ inputs' = t
          /\ outputs' = outs
          /\ pc' = p
          /\ result' = TruthTable_new(t, outs, p)
          /\ UNCHANGED <<self, other, point, expr>>

\* -result
Neg ==
    /\ IsTable(result)
    /\ op' = "neg"
    /\ self' = result
    /\ result' = TT_neg(result)
    /\ other' = None
    /\ point' = NoPoint
    /\ inputs' = <<>>
    /\ outputs' = <<>>
    /\ pc' = FALSE
    /\ expr' = NoExpr

\* result.restrict(q)
Restrict ==
    \E q \in Points :
        /\ IsTable(result)
        /\ op' = "restrict"
        /\ self' = result
        /\ point' = q
        /\ result' = restrict(result, q)
        /\ other' = None
        /\ inputs' = <<>>
        /\ outputs' = <<>>
        /\ pc' = FALSE
        /\ expr' = NoExpr

\* result.satisfy_count()
Count ==
    /\ IsTable(result)
    /\ op' = "satisfy_count"
    /\ self' = result
    /\ result' = Scalar(satisfy_count(result))
    /\ other' = None
    /\ point' = NoPoint
    /\ inputs' = <<>>
    /\ outputs' = <<>>
    /\ pc' = FALSE
    /\ expr' = NoExpr

\* truthtable2expr(result, conj)
Expr ==
    \E conj \in BOOLEAN :
        /\ IsTable(result)
        /\ op # "truthtable2expr"
        /\ op' = "truthtable2expr"
        /\ self' = result
        /\ expr' = truthtable2expr(result, conj)
        /\ other' = Scalar(IF conj THEN 1 ELSE 0)
        /\ point' = NoPoint
        /\ inputs' = <<>>
        /\ outputs' = <<>>
        /\ pc' = FALSE
        /\ UNCHANGED result

\* result + o, for a table or a constant o
Add ==
    \E o \in Arguments :
        /\ IsTable(result)
        /\ op = "init"
        /\ op' = "add"
        /\ self' = result
        /\ other' = o
        /\ result' = TT_add(result, o)
        /\ UNCHANGED <<point, inputs, outputs, pc, expr>>

\* result * o, for a table or a constant o
Mul ==
    \E o \in Arguments :
        /\ IsTable(result)
        /\ op = "init"
        /\ op' = "mul"
        /\ self' = result
        /\ other' = o
        /\ result' = TT_mul(result, o)
        /\ UNCHANGED <<point, inputs, outputs, pc, expr>>

\* The constructor alone, over every input tuple.
NextNew == New(Tuples)

SpecNew == Init /\ [][NextNew]_vars

\* Construction, then complement, restrict and satisfy_count in any order.
Next == New(Monotone) \/ Neg \/ Restrict \/ Count

Spec == Init /\ [][Next]_vars

\* Construction, then at most one complement, then at most one restrict.
NextOnce ==
    \/ New(Monotone)
    \/ (op = "new" /\ Neg)
    \/ (op \in {"new", "neg"} /\ Restrict)

SpecOnce == Init /\ [][NextOnce]_vars

\* Construction, complement and the canonical forms.
NextExpr == New(Tuples) \/ Neg \/ Expr

SpecExpr == Init /\ [][NextExpr]_vars

\* Sum and product of two constructed tables, or of a table and a constant.
InitAlgebra ==
    /\ op = "init"
    /\ self = None
    /\ other = None
    /\ point = NoPoint
    /\ inputs = <<>>
    /\ outputs = <<>>
    /\ pc = FALSE
    /\ result \in Receivers
    /\ expr = NoExpr

NextAlgebra == Add \/ Mul

SpecAlgebra == InitAlgebra /\ [][NextAlgebra]_vars

\* Construction and satisfy_count on the constructed table.
NextCount == New(Tuples) \/ Count

SpecCount == Init /\ [][NextCount]_vars

\* ------------------------------------------------------- Python dispatch
\* x.restrict(q), -x and x * y on a value that may be a Python int: an int has
\* no restrict and no support, and its negation is integer negation.
call_restrict(x, q) ==
    IF IsTable(x) THEN restrict(x, q)
    ELSE IF IsInt(x) THEN Raise("AttributeError")
    ELSE x

call_neg(x) ==
    IF IsTable(x) THEN TT_neg(x)
    ELSE IF IsInt(x) THEN Scalar(0 - x.val)
    ELSE x

call_mul(x, y) ==
    IF IsTable(x) THEN TT_mul(x, y)
    ELSE IF IsInt(x) /\ IsTable(y) THEN TT_mul(y, x)
    ELSE IF IsInt(x) /\ IsInt(y) THEN Scalar(x.val * y.val)
    ELSE IF IsError(x) THEN x ELSE y

\* ------------------------------------------------------- claim vocabulary
may_be_one(output) == output % 2 = 1
may_be_zero(output) == (output \div 2) % 2 = 1

\* A supplied output after coercion into the table's domain.
Coerced(x, p) == IF p THEN pcify(x) ELSE boolify(x)

\* A binary output lifted into the plane encoding.
Lifted(output, p) == IF p THEN output ELSE IF output = 1 THEN PC_ONE ELSE PC_ZERO

Indices(tt) == 0..(cardinality(tt) - 1)

\* Two values are the same table (inputs, mode and every output), or the
\* same scalar or exception.
SameValue(x, y) ==
    IF IsTable(x) /\ IsTable(y)
    THEN /\ x.inputs = y.inputs
         /\ x.pc = y.pc
         /\ \A n \in Indices(x) : decode(x, n) = decode(y, n)
    ELSE x = y

\* The index, over the variables vs, of the point that gives each variable
\* the value val(v).
RECURSIVE IndexOf(_, _, _)
IndexOf(vs, val(_), i) ==
    IF i > Len(vs) THEN 0
    ELSE val(vs[i]) * 2^(i - 1) + IndexOf(vs, val, i + 1)

\* ------------------------------------------------------- C7
\* C7: construct/decode round trip. After TruthTable(inputs, outputs, pc)
\* returned a table, the field decoded at every index n is the n-th supplied
\* output after coercion, and the buffer holds exactly the bytes the
\* cardinality * width field bits need.
C7_RoundTrip ==
    (op = "new" /\ IsTable(result)) =>
        /\ \A n \in Indices(result) :
              decode(result, n) = Coerced(outputs[n + 1], pc)
        /\ Len(result.data) * 8 >= cardinality(result) * width(pc)
        /\ (Len(result.data) - 1) * 8 < cardinality(result) * width(pc)

\* A table whose fields fill more than one byte and differ from each other.
C7_Witness ==
    /\ op = "new" /\ IsTable(result)
    /\ Len(result.data) >= 2
    /\ \E n, m \in Indices(result) :
          /\ n < 4 /\ m >= 4
          /\ decode(result, n) = PC_DC /\ decode(result, m) = PC_ZERO

\* ------------------------------------------------------- C9
\* C9: construction raises (and yields no table) whenever the number of
\* supplied outputs differs from 2^k; with exactly 2^k outputs it returns a
\* table for k >= 1 and the coerced scalar output for k = 0.
C9_ShapeMismatch ==
    op = "new" =>
        IF Len(outputs) # 2^Len(inputs)
        THEN result = Raise("AssertionError")
        ELSE IF Len(inputs) >= 1
        THEN IsTable(result) /\ result.inputs = inputs /\ result.pc = pc
        ELSE result = Scalar(Coerced(outputs[1], pc))

\* A construction with one output too many, which raised.
C9_Witness ==
    /\ op = "new"
    /\ Len(inputs) = 2
    /\ Len(outputs) = 5
    /\ IsError(result)

\* ------------------------------------------------------- C4
\* C4: the complement has the inputs and the mode of its operand; in binary
\* mode its output at every index is 1 - the operand's output, in plane-coded
\* mode it is the operand's output with the two planes swapped (ZERO <-> ONE,
\* DC and VOID fixed).
C4_Complement ==
    op = "neg" =>
        /\ IsTable(result)
        /\ result.inputs = self.inputs
        /\ result.pc = self.pc
        /\ Len(result.data) = Len(self.data)
        /\ \A n \in Indices(self) :
              LET a == decode(self, n)
                  b == decode(result, n)
              IN IF self.pc
                 THEN /\ may_be_one(b) = may_be_zero(a)
                      /\ may_be_zero(b) = may_be_one(a)
                      /\ (a = PC_ZERO => b = PC_ONE)
                      /\ (a = PC_ONE => b = PC_ZERO)
                      /\ (a = PC_DC => b = PC_DC)
                      /\ (a = PC_VOID => b = PC_VOID)
                 ELSE b = 1 - a

\* The complement of a plane-coded table of several bytes that holds a ZERO, a
\* DC and a VOID.
C4_Witness ==
    /\ op = "neg"
    /\ self.pc
    /\ Len(self.data) >= 2
    /\ \A o \in {PC_ZERO, PC_DC, PC_VOID} :
          \E n \in Indices(self) : decode(self, n) = o

\* ------------------------------------------------------- C5
\* The index in self of the point made of the bits of n over the remaining
\* variables and the values q fixes.
FullIndex(tt, rest, q, n) ==
    LET val(v) == IF v \in DOMAIN q THEN q[v] ELSE bit_on(n, IndexIn(rest, v) - 1)
    IN IndexOf(tt.inputs, val, 1)

\* C5: restrict with a point q that assigns some but not all variables of the
\* support returns a new table of the same mode over the unassigned inputs in
\* their order, whose output at n is the operand's output at the full point;
\* with a q that assigns no variable of the support it returns the operand.
C5_Restrict ==
    op = "restrict" =>
        LET S == DOMAIN point \cap support(self)
            rest == SelectSeq(self.inputs, LAMBDA v : v \notin S)
        IN /\ (S = {} => result = self)
           /\ (S # {} /\ S # support(self)) =>
                 /\ IsTable(result)
                 /\ result.pc = self.pc
                 /\ result.inputs = rest
                 /\ Len(result.data) * 8 < cardinality(result) * width(result.pc) + 8
                 /\ \A n \in Indices(result) :
                       decode(result, n) = decode(self, FullIndex(self, rest, point, n))

\* A restriction of a two-variable table on its first input, by a point that
\* also names a variable outside the support; the result is not constant.
C5_Witness ==
    /\ op = "restrict"
    /\ Len(self.inputs) = 2
    /\ DOMAIN point \cap support(self) = {self.inputs[1]}
    /\ DOMAIN point # {self.inputs[1]}
    /\ IsTable(result)
    /\ \E n, m \in Indices(result) : decode(result, n) # decode(result, m)

\* ------------------------------------------------------- C6
\* The part of point q on the variables D.
Part(q, D) == [v \in D |-> q[v]]

\* C6 as stated: restricting by q1 and then by q2 is restricting once by their
\* union, for every split of the point into two disjoint parts, also when q1
\* alone assigns the whole support; and a point that shares no variable with
\* the support returns the operand unchanged.
C6_AnySplit ==
    op = "restrict" =>
        /\ (DOMAIN point \cap support(self) = {} => result = self)
        /\ \A D \in SUBSET DOMAIN point :
              SameValue(call_restrict(call_restrict(self, Part(point, D)),
                                      Part(point, DOMAIN point \ D)),
                        result)

\* C6, amended: the same for every split whose first part leaves at least one
\* variable of the support unassigned (the first restriction then returns a
\* table; a bare scalar has no restrict).
C6_SplitKeepingATable ==
    op = "restrict" =>
        /\ (DOMAIN point \cap support(self) = {} => result = self)
        /\ \A D \in SUBSET DOMAIN point :
              ~(support(self) \subseteq D) =>
                  SameValue(call_restrict(call_restrict(self, Part(point, D)),
                                          Part(point, DOMAIN point \ D)),
                            result)

\* A restriction of a three-variable table by a point that assigns all three:
\* the splits include one and two variables first, and the result is a scalar.
C6_Witness ==
    /\ op = "restrict"
    /\ Cardinality(support(self)) = 3
    /\ support(self) \subseteq DOMAIN point
    /\ IsInt(result)
    /\ result.val = PC_DC

\* ------------------------------------------------------- C1
\* C1: on a constructed table satisfy_count returns the number of points whose
\* output is one or don't-care (binary 1; plane-coded: the may_be_one bit is
\* set), which is the number of points iter_ones / satisfy_all yields.
C1_CountsOnesAndDC ==
    op = "satisfy_count" =>
        /\ result.val = Len(satisfy_all(self))
        /\ result.val =
              Cardinality({n \in Indices(self) :
                  IF self.pc THEN may_be_one(decode(self, n))
                  ELSE decode(self, n) = 1})

\* ------------------------------------------------------- C10
\* Every bit of the buffer beyond the cardinality * width field bits is zero.
PaddingZero(tt) ==
    \A i \in 1..Len(tt.data), b \in 0..7 :
        (8 * (i - 1) + b >= cardinality(tt) * width(tt.pc)) => bit_on(tt.data[i], b) = 0

\* C10: every reachable table has zero padding bits, every reachable binary
\* table has satisfy_count equal to the number of points satisfy_all yields,
\* and satisfy_count(-T) = cardinality(T) - satisfy_count(T).
C10_PaddingIsZero ==
    /\ (IsTable(result) => PaddingZero(result))
    /\ (op = "satisfy_count" /\ ~self.pc => result.val = Len(satisfy_all(self)))
    /\ (op = "neg" /\ ~self.pc =>
            satisfy_count(result) = cardinality(self) - satisfy_count(self))

\* ------------------------------------------------------- C8
\* The indices whose output is definitely zero (conj) or definitely one.
Definite(tt, conj) ==
    SelectSeq([i \in 1..cardinality(tt) |-> i - 1],
              LAMBDA n : IF conj
                         THEN decode(tt, n) = (IF tt.pc THEN PC_ZERO ELSE 0)
                         ELSE decode(tt, n) = 1)

\* The index of the one point at which a minterm is true, or a maxterm false.
TermIndex(term, conj) ==
    LET f[i \in 0..Len(term)] ==
            IF i = 0 THEN 0
            ELSE f[i - 1] + (IF term[i].neg = conj THEN 2^(i - 1) ELSE 0)
    IN f[Len(term)]

\* The value of the expression e at the point of index n over vs.
Eval(e, vs, n) ==
    LET lit(l) == IF l.neg THEN bit_on(n, IndexIn(vs, l.var) - 1) = 0
                  ELSE bit_on(n, IndexIn(vs, l.var) - 1) = 1
        inner(t) == IF e.inner = "And" THEN \A i \in DOMAIN t : lit(t[i])
                    ELSE \E i \in DOMAIN t : lit(t[i])
        outer == IF e.outer = "And" THEN \A i \in DOMAIN e.terms : inner(e.terms[i])
                 ELSE \E i \in DOMAIN e.terms : inner(e.terms[i])
    IN IF outer THEN 1 ELSE 0

\* C8: the disjunctive form is an Or of And-terms, one per point whose output
\* is definitely one, in ascending index order; the conjunctive form is an And
\* of Or-terms, one per point whose output is definitely zero; DC and VOID
\* points give a term to neither; for a binary table either form evaluates to
\* the table's output at every point.
C8_CanonicalForms ==
    op = "truthtable2expr" =>
        LET conj == other.val = 1
            want == Definite(self, conj)
        IN /\ expr.outer = (IF conj THEN "And" ELSE "Or")
           /\ expr.inner = (IF conj THEN "Or" ELSE "And")
           /\ Len(expr.terms) = Len(want)
           /\ \A i \in DOMAIN expr.terms :
                 /\ [j \in DOMAIN expr.terms[i] |-> expr.terms[i][j].var] = self.inputs
                 /\ TermIndex(expr.terms[i], conj) = want[i]
           /\ \A n \in Indices(self) :
                 /\ decode(self, n) \in {PC_DC, PC_VOID} /\ self.pc =>
                       \A i \in DOMAIN expr.terms : TermIndex(expr.terms[i], conj) # n
                 /\ ~self.pc => Eval(expr, self.inputs, n) = decode(self, n)

\* The conjunctive form of a plane-coded table with DC, VOID and ZERO points:
\* it has terms, and fewer than iter_zeros yields points.
C8_Witness ==
    /\ op = "truthtable2expr"
    /\ other.val = 1
    /\ self.pc
    /\ Len(expr.terms) >= 2
    /\ Len(expr.terms) < Len(iter_zeros(self))
    /\ \A o \in {PC_ZERO, PC_DC, PC_VOID} : \E n \in Indices(self) : decode(self, n) = o

\* ------------------------------------------------------- C2
\* The index in tt of the projection onto tt's support of the point of index n
\* over the variables vs.
ProjIndex(tt, vs, n) ==
    LET val(v) == bit_on(n, IndexIn(vs, v) - 1)
    IN IndexOf(tt.inputs, val, 1)

\* C2: the sum of two tables is a table over the sorted union of the supports,
\* plane-coded iff an operand is, whose output at every point has may_be_one =
\* the OR and may_be_zero = the AND of the operands' (lifted) outputs at the
\* projections of the point; for two binary tables it is the OR of the outputs.
C2_Sum ==
    (op = "add" /\ IsTable(other)) =>
        /\ IsTable(result)
        /\ support(result) = support(self) \cup support(other)
        /\ Len(result.inputs) = Cardinality(support(result))
        /\ IsAscending(result.inputs)
        /\ result.pc = (self.pc \/ other.pc)
        /\ \A n \in Indices(result) :
              LET a == decode(self, ProjIndex(self, result.inputs, n))
                  b == decode(other, ProjIndex(other, result.inputs, n))
                  r == decode(result, n)
              IN IF result.pc
                 THEN /\ may_be_one(r) =
                            (may_be_one(Lifted(a, self.pc)) \/ may_be_one(Lifted(b, other.pc)))
                      /\ may_be_zero(r) =
                            (may_be_zero(Lifted(a, self.pc)) /\ may_be_zero(Lifted(b, other.pc)))
                 ELSE r = (IF a = 1 \/ b = 1 THEN 1 ELSE 0)

\* The sum of a binary table and a plane-coded table with overlapping supports,
\* neither within the other, with a DC in the result.
C2_Witness ==
    /\ op = "add" /\ IsTable(other) /\ IsTable(result)
    /\ ~self.pc /\ other.pc
    /\ support(self) \cap support(other) # {}
    /\ ~(support(self) \subseteq support(other))
    /\ ~(support(other) \subseteq support(self))
    /\ ~IsAscending(self.inputs)
    /\ \E n \in Indices(result) : decode(result, n) = PC_DC

\* ------------------------------------------------------- C3
\* The Boolean complement of a table or of a constant 0 / 1.
Complement(x) == IF IsInt(x) THEN Scalar(1 - x.val) ELSE call_neg(x)

\* C3 as stated: -(A + B) equals (-A) * (-B) for a table A and every B, a
\* table or the constant 0 or 1, with - the program's negation.
C3_DeMorganIncludingConstants ==
    op = "add" =>
        SameValue(call_neg(result), call_mul(call_neg(self), call_neg(other)))

\* C3, amended: -(A + B) equals (-A) * (-B) for all tables A and B; with B the
\* constant 0 or 1 the two sides agree when the complement of a constant c is
\* taken as 1 - c.
C3_DeMorganTables ==
    op = "add" =>
        IF IsTable(other)
        THEN SameValue(call_neg(result), call_mul(call_neg(self), call_neg(other)))
        ELSE SameValue(Complement(result), call_mul(call_neg(self), Complement(other)))

\* The sum of a binary and a plane-coded table over different variables, whose
\* result holds a VOID and a DC.
C3_Witness ==
    /\ op = "add" /\ IsTable(other) /\ IsTable(result)
    /\ self.pc # other.pc
    /\ support(self) # support(other)
    /\ \E n, m \in Indices(result) :
          decode(result, n) = PC_VOID /\ decode(result, m) = PC_DC

====
